---- MODULE Spec2Model ----
(***************************************************************************)
(* Model of FP_daily_project_name_comparison.py: a daily batch script that *)
(* fetches the distinct project names from a database, compares them with  *)
(* yesterday's CSV snapshot, writes today's snapshot and mails the diff.   *)
(*                                                                         *)
(* A project name is a sequence of one-character strings.  A DataFrame     *)
(* with the single column project_names is the sequence of its rows.  A    *)
(* CSV file is [exists, rows]: rows are the text lines after the header.   *)
(* Calendar dates are day numbers; the file of day d is                    *)
(* CSV_DIR / project_names_<d>.csv.                                        *)
(***************************************************************************)
EXTENDS Integers, Sequences, FiniteSets, TLC

\* ------------------------------------------------------------- bounds
\* Last calendar day the clock reaches.
MaxDay == 2
\* Most rows of a DataFrame drawn as an input.
MaxRows == 2

\* ------------------------------------------------------------ strings
\* Code point of a character (Python compares str by code point).
Code(c) ==
  CASE c = " " -> 32
    [] c = "\"" -> 34
    [] c = "A" -> 65
    [] c = "B" -> 66
    [] c = "N" -> 78
    [] c = "a" -> 97
    [] c = "b" -> 98
    [] c = "n" -> 110

IsSpace(c) == c = " "

\* str.lower() on one character.
LowerChar(c) ==
  CASE c = "A" -> "a"
    [] c = "B" -> "b"
    [] c = "N" -> "n"
    [] OTHER -> c

\* Series.str.lower()
Lower(s) == [i \in 1..Len(s) |-> LowerChar(s[i])]

RECURSIVE LStrip(_)
LStrip(s) == IF s # <<>> /\ IsSpace(Head(s)) THEN LStrip(Tail(s)) ELSE s

RECURSIVE RStrip(_)
RStrip(s) ==
  IF s # <<>> /\ IsSpace(s[Len(s)]) THEN RStrip(SubSeq(s, 1, Len(s) - 1)) ELSE s

\* Series.str.strip()
Strip(s) == RStrip(LStrip(s))

NormalizeNoStrip(s) == Lower(s)

\* .str.strip().str.lower(): the identity key of a name.
Normalize(s) == Lower(Strip(s))

\* s < t as Python compares two str.
RECURSIVE StrLess(_, _)
StrLess(s, t) ==
  IF t = <<>> THEN FALSE
  ELSE IF s = <<>> THEN TRUE
  ELSE IF Code(Head(s)) # Code(Head(t)) THEN Code(Head(s)) < Code(Head(t))
  ELSE StrLess(Tail(s), Tail(t))

\* ---------------------------------------------------------- DataFrames
Range(f) == {f[i] : i \in DOMAIN f}

\* Insert row x into the ascending sequence df.
RECURSIVE InsertSorted(_, _)
InsertSorted(x, df) ==
  IF df = <<>> THEN <<x>>
  ELSE IF StrLess(x, Head(df)) THEN <<x>> \o df
  ELSE <<Head(df)>> \o InsertSorted(x, Tail(df))

\* new_data.sort_values(by="project_names"): ascending.
RECURSIVE sort_values(_)
sort_values(df) ==
  IF df = <<>> THEN <<>> ELSE InsertSorted(Head(df), sort_values(Tail(df)))

\* Sequences of distinct elements of S with at most n rows.
DistinctSeqs(S, n) ==
  {q \in UNION {[1..k -> S] : k \in 0..n} : Cardinality(Range(q)) = Len(q)}

\* ------------------------------------------------------- compare_csvs
Added == "Added"
Removed == "Removed"

\* set(df["project_names"].str.strip().str.lower())
NormalizedSet(df) == {Normalize(df[i]) : i \in DOMAIN df}

\* df.assign(status=...)
AssignStatus(df, status) == [i \in DOMAIN df |-> [project_names |-> df[i], status |-> status]]

compare_csvs_NoStrip(new_df, old_df) ==
  LET old_n == {NormalizeNoStrip(old_df[i]) : i \in DOMAIN old_df}
      new_n == {NormalizeNoStrip(new_df[i]) : i \in DOMAIN new_df}
      InAdded(x) == NormalizeNoStrip(x) \in new_n \ old_n
      InRemoved(x) == NormalizeNoStrip(x) \in old_n \ new_n
  IN AssignStatus(SelectSeq(new_df, InAdded), Added)
       \o AssignStatus(SelectSeq(old_df, InRemoved), Removed)

\* compare_csvs(new_df, old_df): the rows of new_df whose key is new, labelled
\* Added, followed by the rows of old_df whose key is gone, labelled Removed.
compare_csvs(new_df, old_df) ==
  LET old_projects_normalized == NormalizedSet(old_df)
      new_projects_normalized == NormalizedSet(new_df)
      added_projects == new_projects_normalized \ old_projects_normalized
      removed_projects == old_projects_normalized \ new_projects_normalized
      InAdded(x) == Normalize(x) \in added_projects
      InRemoved(x) == Normalize(x) \in removed_projects
      added_df == SelectSeq(new_df, InAdded)
      removed_df == SelectSeq(old_df, InRemoved)
  IN AssignStatus(added_df, Added) \o AssignStatus(removed_df, Removed)

\* ---------------------------------------------------------------- CSV
Quote == "\""

\* The strings pandas.read_csv reads as NaN by default (keep_default_na),
\* those that can be spelled with the characters of Code: '', NA, NaN, nan.
NA_VALUES == {<<>>, <<"N", "A">>, <<"N", "a", "N">>, <<"n", "a", "n">>}

\* The line to_csv writes for one value: the value itself; an empty string,
\* alone on its row, is written quoted.
CsvLine(name) == IF name = <<>> THEN <<Quote, Quote>> ELSE name

\* The field read_csv parses from one line.
CsvField(line) == IF line = <<Quote, Quote>> THEN <<>> ELSE line

NoFile == [exists |-> FALSE, rows |-> <<>>]

\* new_data.to_csv(today_file, index=False): header, then one line per row.
to_csv(df) == [exists |-> TRUE, rows |-> [i \in DOMAIN df |-> CsvLine(df[i])]]

IsNotNA(field) == field \notin NA_VALUES

\* pd.read_csv(filepath, usecols=["project_names"], dtype=str) followed by
\* dropna(subset=["project_names"]).
read_csv_dropna(file) ==
  SelectSeq([i \in DOMAIN file.rows |-> CsvField(file.rows[i])], IsNotNA)

\* load_csv(filepath): the rows of the file, or an empty frame when the file
\* does not exist.
load_csv(file) == IF file.exists THEN read_csv_dropna(file) ELSE <<>>

\* -------------------------------------------------------------- state
VARIABLES
  clock,           \* the calendar day datetime.now() returns
  files,           \* CSV_DIR: day -> the snapshot file named by that day
  pc,              \* the statement of the script that runs next
  EMAIL_RECEIVER,  \* the recipient list parsed from the environment
  today,           \* <<>> until line 69 binds it, then <<day>>
  yesterday,       \* <<>> until line 70 binds it, then <<day>>
  new_data,        \* result of fetch_project_names(): unbound, None or a frame
  old_data,        \* result of load_csv(yesterday_file)
  diff_df,         \* result of compare_csvs
  sent,            \* the messages this run handed to the SMTP server
  log,             \* the failures this run printed (messages and tracebacks)
  exitCode,        \* the exit status of the process, once pc = "exited"
  dbConnects,      \* psycopg2.connect calls of this run
  snapshotReads,   \* read_csv calls of this run
  snapshotWrites,  \* to_csv calls of this run
  sendAttempts     \* SMTP sessions this run opened

vars ==
  <<clock, files, pc, EMAIL_RECEIVER, today, yesterday, new_data, old_data,
    diff_df, sent, log, exitCode, dbConnects, snapshotReads, snapshotWrites,
    sendAttempts>>

Days == 0..MaxDay

\* The names the database may hold in the workflow runs.
DbNames == {<<"A">>, <<"a">>, <<"N", "A">>}

\* The names the pure functions are applied to: case variants, surrounding
\* whitespace, an NA spelling, the empty string.
NameUniverse ==
  {<<"A", " ">>, <<"A">>, <<"a">>, <<"B">>, <<"N", "A">>, <<>>}

Unbound == [st |-> "unbound", rows |-> <<>>]
None == [st |-> "None", rows |-> <<>>]
Frame(df) == [st |-> "df", rows |-> df]

today_file_Yesterday == yesterday[1]

\* The day naming yesterday_file and today_file (lines 71-72).
yesterday_file == yesterday[1]
today_file == today[1]

\* The per-run bindings before the script starts.
FreshRun ==
  /\ pc = "config"
  /\ EMAIL_RECEIVER = <<>>
  /\ today = <<>>
  /\ yesterday = <<>>
  /\ new_data = Unbound
  /\ old_data = <<>>
  /\ diff_df = <<>>
  /\ sent = <<>>
  /\ log = {}
  /\ exitCode = 0
  /\ dbConnects = 0
  /\ snapshotReads = 0
  /\ snapshotWrites = 0
  /\ sendAttempts = 0

Init ==
  /\ clock = 1
  /\ files = [d \in Days |-> NoFile]
  /\ FreshRun

\* An uncaught exception: traceback, exit status 1.
Crash(step) ==
  /\ pc' = "exited"
  /\ exitCode' = 1
  /\ log' = log \cup {step}

\* Lines 27-53: load .env and read the settings.  int(SMTP_PORT) raises on a
\* non-numeric value; EMAIL_RECEIVER may come out empty and nothing checks it.
LoadConfig ==
  /\ pc = "config"
  /\ \E receivers \in {<<>>, <<"r1">>}, portOk \in BOOLEAN :
       /\ EMAIL_RECEIVER' = (IF portOk THEN receivers ELSE EMAIL_RECEIVER)
       /\ IF portOk
            THEN pc' = "dbtest" /\ UNCHANGED <<exitCode, log>>
            ELSE Crash("config")
  /\ UNCHANGED <<clock, files, today, yesterday, new_data, old_data, diff_df,
                 sent, dbConnects, snapshotReads, snapshotWrites, sendAttempts>>

\* Lines 57-62: the connection test; its failure is printed and ignored.
DbTest ==
  /\ pc = "dbtest"
  /\ dbConnects' = dbConnects + 1
  /\ \E ok \in BOOLEAN : log' = (IF ok THEN log ELSE log \cup {"dbtest"})
  /\ pc' = "today"
  /\ UNCHANGED <<clock, files, EMAIL_RECEIVER, today, yesterday, new_data,
                 old_data, diff_df, sent, exitCode, snapshotReads,
                 snapshotWrites, sendAttempts>>

\* Line 69: today = datetime.now() as a date.
ReadToday ==
  /\ pc = "today"
  /\ today' = <<clock>>
  /\ pc' = "yesterday"
  /\ UNCHANGED <<clock, files, EMAIL_RECEIVER, yesterday, new_data, old_data,
                 diff_df, sent, log, exitCode, dbConnects, snapshotReads,
                 snapshotWrites, sendAttempts>>

\* Line 70: yesterday = a second datetime.now(), minus one day, as a date.
ReadYesterday ==
  /\ pc = "yesterday"
  /\ yesterday' = <<clock - 1>>
  /\ pc' = "fetch"
  /\ UNCHANGED <<clock, files, EMAIL_RECEIVER, today, new_data, old_data,
                 diff_df, sent, log, exitCode, dbConnects, snapshotReads,
                 snapshotWrites, sendAttempts>>

\* Line 167, fetch_project_names(): the rows of the query, or None when the
\* connection or the query raises (printed, not re-raised).
Fetch ==
  /\ pc = "fetch"
  /\ dbConnects' = dbConnects + 1
  /\ \/ \E df \in DistinctSeqs(DbNames, MaxRows) :
          new_data' = Frame(df) /\ log' = log
     \/ new_data' = None /\ log' = log \cup {"fetch"}
  /\ pc' = "load"
  /\ UNCHANGED <<clock, files, EMAIL_RECEIVER, today, yesterday, old_data,
                 diff_df, sent, exitCode, snapshotReads, snapshotWrites,
                 sendAttempts>>

\* Line 168, load_csv(yesterday_file).  A missing file is reported and gives
\* an empty frame; read_csv of an existing file may raise an I/O error, which
\* nothing catches.
LoadYesterday ==
  /\ pc = "load"
  /\ IF files[yesterday_file].exists
       THEN /\ snapshotReads' = snapshotReads + 1
            /\ \/ /\ old_data' = load_csv(files[yesterday_file])
                  /\ pc' = "branch"
                  /\ UNCHANGED <<log, exitCode>>
               \/ /\ Crash("load")
                  /\ UNCHANGED old_data
       ELSE /\ old_data' = load_csv(files[yesterday_file])
            /\ log' = log \cup {"no_previous_csv"}
            /\ pc' = "branch"
            /\ UNCHANGED <<snapshotReads, exitCode>>
  /\ UNCHANGED <<clock, files, EMAIL_RECEIVER, today, yesterday, new_data,
                 diff_df, sent, dbConnects, snapshotWrites, sendAttempts>>

SkipsWorkflow_Never == FALSE

\* Line 170: `if new_data is not None` is false.
SkipsWorkflow == new_data.st = "None"

\* Line 170 with new_data None: the script ends, exit status 0.
SkipWorkflow ==
  /\ pc = "branch"
  /\ SkipsWorkflow
  /\ pc' = "exited"
  /\ exitCode' = 0
  /\ UNCHANGED <<clock, files, EMAIL_RECEIVER, today, yesterday, new_data,
                 old_data, diff_df, sent, log, dbConnects, snapshotReads,
                 snapshotWrites, sendAttempts>>

\* Line 171: diff_df = compare_csvs(new_data, old_data).
Compare ==
  /\ pc = "branch"
  /\ ~SkipsWorkflow
  /\ diff_df' = compare_csvs(new_data.rows, old_data)
  /\ pc' = "save"
  /\ UNCHANGED <<clock, files, EMAIL_RECEIVER, today, yesterday, new_data,
                 old_data, sent, log, exitCode, dbConnects, snapshotReads,
                 snapshotWrites, sendAttempts>>

\* Lines 174-176: mkdir, sort in place, to_csv(today_file).
Save ==
  /\ pc = "save"
  /\ new_data' = Frame(sort_values(new_data.rows))
  /\ snapshotWrites' = snapshotWrites + 1
  /\ files' = [files EXCEPT ![today_file] = to_csv(sort_values(new_data.rows))]
  /\ pc' = "send"
  /\ UNCHANGED <<clock, EMAIL_RECEIVER, today, yesterday, old_data, diff_df,
                 sent, log, exitCode, dbConnects, snapshotReads, sendAttempts>>

\* Lines 174-176 raising (mkdir or to_csv: permission, disk): nothing catches
\* it, the script dies before send_email is called.
SaveRaises ==
  /\ pc = "save"
  /\ Crash("save")
  /\ UNCHANGED <<clock, files, EMAIL_RECEIVER, today, yesterday, new_data,
                 old_data, diff_df, sent, dbConnects, snapshotReads,
                 snapshotWrites, sendAttempts>>

\* The message send_email composes (lines 135-148).
Message ==
  [subject |-> today[1], to |-> EMAIL_RECEIVER,
   total_projects |-> Len(new_data.rows), diff |-> diff_df]

\* Lines 179-180, send_email(total_projects, diff_df): an SMTP session;
\* any failure is printed and swallowed.  sendmail refuses an empty
\* recipient list.  The script then ends, exit status 0.
SendEmail ==
  /\ pc = "send"
  /\ sendAttempts' = sendAttempts + 1
  /\ \/ /\ EMAIL_RECEIVER # <<>>
        /\ sent' = Append(sent, Message)
        /\ UNCHANGED log
     \/ /\ log' = log \cup {"send"}
        /\ UNCHANGED sent
  /\ pc' = "exited"
  /\ exitCode' = 0
  /\ UNCHANGED <<clock, files, EMAIL_RECEIVER, today, yesterday, new_data,
                 old_data, diff_df, dbConnects, snapshotReads, snapshotWrites>>

\* The scheduler starts the script again: a new process, the same directory.
NewRun ==
  /\ pc = "exited"
  /\ pc' = "config"
  /\ EMAIL_RECEIVER' = <<>>
  /\ today' = <<>>
  /\ yesterday' = <<>>
  /\ new_data' = Unbound
  /\ old_data' = <<>>
  /\ diff_df' = <<>>
  /\ sent' = <<>>
  /\ log' = {}
  /\ exitCode' = 0
  /\ dbConnects' = 0
  /\ snapshotReads' = 0
  /\ snapshotWrites' = 0
  /\ sendAttempts' = 0
  /\ UNCHANGED <<clock, files>>

\* Midnight passes.
Tick ==
  /\ clock < MaxDay
  /\ clock' = clock + 1
  /\ UNCHANGED <<files, pc, EMAIL_RECEIVER, today, yesterday, new_data,
                 old_data, diff_df, sent, log, exitCode, dbConnects,
                 snapshotReads, snapshotWrites, sendAttempts>>

Next ==
  \/ LoadConfig
  \/ DbTest
  \/ ReadToday
  \/ ReadYesterday
  \/ Fetch
  \/ LoadYesterday
  \/ SkipWorkflow
  \/ Compare
  \/ Save
  \/ SaveRaises
  \/ SendEmail
  \/ NewRun
  \/ Tick

Spec == Init /\ [][Next]_vars

\* ------------------------------------------- the functions on their own
\* compare_csvs, and the save / load_csv pair, applied to every pair of frames
\* of at most MaxRows distinct names of NameUniverse.
InitPure ==
  /\ clock = 1
  /\ files = [d \in Days |-> NoFile]
  /\ pc = "pure"
  /\ EMAIL_RECEIVER = <<>>
  /\ today = <<1>>
  /\ yesterday = <<0>>
  /\ new_data \in {Frame(df) : df \in DistinctSeqs(NameUniverse, MaxRows)}
  /\ old_data \in DistinctSeqs(NameUniverse, MaxRows)
  /\ diff_df = <<>>
  /\ sent = <<>>
  /\ log = {}
  /\ exitCode = 0
  /\ dbConnects = 0
  /\ snapshotReads = 0
  /\ snapshotWrites = 0
  /\ sendAttempts = 0

\* diff_df = compare_csvs(new_data, old_data)
ApplyCompare ==
  /\ pc = "pure"
  /\ diff_df' = compare_csvs(new_data.rows, old_data)
  /\ pc' = "compared"
  /\ UNCHANGED <<clock, files, EMAIL_RECEIVER, today, yesterday, new_data,
                 old_data, sent, log, exitCode, dbConnects, snapshotReads,
                 snapshotWrites, sendAttempts>>

\* The save of lines 175-176, then load_csv of the file just written.
ApplySaveLoad ==
  /\ pc = "pure"
  /\ files' = [files EXCEPT ![today_file] = to_csv(sort_values(new_data.rows))]
  /\ old_data' = load_csv(files'[today_file])
  /\ pc' = "reloaded"
  /\ UNCHANGED <<clock, EMAIL_RECEIVER, today, yesterday, new_data, diff_df,
                 sent, log, exitCode, dbConnects, snapshotReads,
                 snapshotWrites, sendAttempts>>

NextPure == ApplyCompare \/ ApplySaveLoad

SpecPure == InitPure /\ [][NextPure]_vars

\* ------------------------------------------------------------- claims
\* The positions of the non-blank characters of a name.
InkAt(s) == {i \in DOMAIN s : s[i] # " "}
MinOf(S) == CHOOSE i \in S : \A j \in S : i <= j
MaxOf(S) == CHOOSE i \in S : \A j \in S : j <= i

\* The normalized form of a name as the specification words it: the name
\* from its first to its last non-blank character, in lower case.
KeyOf(s) ==
  IF InkAt(s) = {} THEN <<>>
  ELSE [i \in 1..(MaxOf(InkAt(s)) - MinOf(InkAt(s)) + 1) |->
          LowerChar(s[MinOf(InkAt(s)) + i - 1])]

KeysOf(df) == {KeyOf(df[i]) : i \in DOMAIN df}

\* The names a diff lists under one status.
Listed(diff, status) ==
  {diff[i].project_names : i \in {j \in DOMAIN diff : diff[j].status = status}}

\* C1: once fetch_project_names has returned None, no step of the run writes
\* a snapshot file or sends a message, and none has been written or sent.
C1_FetchFailureWritesAndSendsNothing ==
  /\ [](new_data.st = "None" =>
          sent = <<>> /\ sendAttempts = 0 /\ snapshotWrites = 0)
  /\ [][new_data.st = "None" =>
          files' = files /\ sent' = sent /\ sendAttempts' = sendAttempts]_vars

\* C1 witness: a run has ended after a failed fetch, with an earlier
\* snapshot on disk.
C1_Witness ==
  /\ pc = "exited"
  /\ new_data.st = "None"
  /\ \E d \in Days : files[d].exists

\* C2: a run whose snapshot save raised still attempts to send the email.
C2_SaveFailureStillNotifies ==
  (pc = "exited" /\ "save" \in log) => sendAttempts >= 1

\* C3: a run in which the fetch, the save or the send failed ends with a
\* non-zero exit status.
C3_FailedStepExitsNonZero ==
  (pc = "exited" /\ log \cap {"fetch", "save", "send"} # {}) => exitCode # 0

\* C4: with an empty recipient list the run performs no I/O after the
\* configuration is loaded: no database connection, no snapshot read or
\* write, no send attempt.
C4_EmptyRecipientsAbortBeforeIO ==
  (pc # "config" /\ EMAIL_RECEIVER = <<>>) =>
     /\ dbConnects = 0
     /\ snapshotReads = 0
     /\ snapshotWrites = 0
     /\ sendAttempts = 0

\* C5: compare_csvs(A, B) lists as Added exactly the names of A whose key is
\* in keys(A) \ keys(B) and as Removed exactly the names of B whose key is
\* in keys(B) \ keys(A); the two key sets are disjoint,
\* keys(A) = (keys(B) + added keys) - removed keys, and the diff is empty
\* when keys(A) = keys(B).
C5_DiffIsKeySetDifference ==
  pc = "compared" =>
    LET A == new_data.rows
        B == old_data
        addedKeys == {KeyOf(x) : x \in Listed(diff_df, Added)}
        removedKeys == {KeyOf(x) : x \in Listed(diff_df, Removed)}
    IN /\ Listed(diff_df, Added) =
            {x \in Range(A) : KeyOf(x) \in KeysOf(A) \ KeysOf(B)}
       /\ Listed(diff_df, Removed) =
            {x \in Range(B) : KeyOf(x) \in KeysOf(B) \ KeysOf(A)}
       /\ \A i \in DOMAIN diff_df : diff_df[i].status \in {Added, Removed}
       /\ addedKeys \cap removedKeys = {}
       /\ KeysOf(A) = (KeysOf(B) \cup addedKeys) \ removedKeys
       /\ (KeysOf(A) = KeysOf(B) => diff_df = <<>>)

\* C5 witness: "A " and "B" today against "a" and "NA" yesterday, compared.
C5_Witness ==
  /\ pc = "compared"
  /\ new_data.rows = << <<"A", " ">>, <<"B">> >>
  /\ old_data = << <<"a">>, <<"N", "A">> >>
  /\ Listed(diff_df, Added) = {<<"B">>}
  /\ Listed(diff_df, Removed) = {<<"N", "A">>}

\* C6: against an empty yesterday, nothing is Removed and every key of
\* today's names is listed by exactly one Added row.
C6_OneRepresentativePerKey ==
  (pc = "compared" /\ old_data = <<>>) =>
     /\ Listed(diff_df, Removed) = {}
     /\ \A k \in KeysOf(new_data.rows) :
          Cardinality({i \in DOMAIN diff_df :
                         /\ diff_df[i].status = Added
                         /\ KeyOf(diff_df[i].project_names) = k}) = 1

\* C7: for a set S of names none of which is blank, loading the snapshot
\* just written from S gives back the names of S.
C7_SnapshotRoundTrip ==
  (pc = "reloaded" /\ \A x \in Range(new_data.rows) : InkAt(x) # {}) =>
     Range(old_data) = Range(new_data.rows)

\* C8: when load_csv found no file for yesterday, it returned an empty
\* frame, yesterday's file still does not exist at any later point of the
\* run, and the diff lists every fetched name as Added and none as Removed.
C8_MissingBaseline ==
  "no_previous_csv" \in log =>
     /\ old_data = <<>>
     /\ ~files[yesterday[1]].exists
     /\ (pc \in {"save", "send"} =>
           /\ Listed(diff_df, Added) = Range(new_data.rows)
           /\ Listed(diff_df, Removed) = {})

\* C9: a run writes at most one snapshot file, and the only step that
\* changes a snapshot file is the save, which changes the file named by the
\* date the run read as today.
C9_OnlyTodaysFileIsWritten ==
  /\ [](snapshotWrites <= 1)
  /\ [][\A d \in Days :
          files'[d] # files[d] =>
            pc = "save" /\ d = today[1] /\ snapshotWrites = 0]_vars

\* C9 witness: the run has written today's file while the file of another
\* day is on disk.
C9_Witness ==
  /\ snapshotWrites = 1
  /\ files[today[1]].exists
  /\ \E d \in Days : d # today[1] /\ files[d].exists

\* C10: once both dates are bound, yesterday is the day before today and
\* the two file names differ.
C10_YesterdayIsDayBeforeToday ==
  yesterday # <<>> =>
     /\ yesterday[1] = today[1] - 1
     /\ yesterday[1] # today[1]

====
